---- MODULE Spec2Model ----
(***************************************************************************)
(* Model of src/src/reproduce_figures.py: the command line script that     *)
(* checks that the four input files exist, prepares the output directory,  *)
(* constructs a DataReader, builds Figures 2-5 and saves them as PNG.      *)
(*                                                                         *)
(* The state is the part of the filesystem the script touches (the data    *)
(* directory, the chain of path components leading to the output           *)
(* directory, the entries of the output directory), the script's standard  *)
(* output, its local variables and its position in reproduce_figures.      *)
(* DataReader, make_figure_N and Figure.savefig live in the external       *)
(* `postprocessing` module and matplotlib: each call either returns or     *)
(* raises, and the script catches nothing.                                 *)
(*                                                                         *)
(* Filesystem domain: every ancestor of the output path is a directory or  *)
(* is missing; the output path itself is missing, a directory or a         *)
(* regular file.                                                           *)
(***************************************************************************)
EXTENDS Integers, Sequences, FiniteSets

\* Number of trailing components of the output path that are tracked:
\* chain[MaxDepth] is the output directory, chain[1..MaxDepth-1] its parents.
MaxDepth == 3
\* Number of times Output Directory Preparation is applied under SpecPrep.
MaxPrep == 2

VARIABLES
    args,        \* the command line options: data_dir and output_dir
    fs,          \* the filesystem: data directory, output chain, output entries
    fs0,         \* the filesystem when the run started (history)
    pc,          \* index of the next statement of reproduce_figures
    status,      \* "running", "done", "exited" (sys.exit) or "error" (uncaught)
    exitStatus,  \* the process exit status once the run has ended, else -1 as "none"
    stdout,      \* the sequence of messages printed
    data_reader, \* the local variable data_reader
    readerCount, \* how many DataReader objects have been constructed
    figs,        \* the local variables fig2..fig5
    log,         \* the statements executed so far, with their outcome (history)
    raisedAt,    \* index of the statement whose exception ended the run, else 0
    prepCount,   \* applications of Output Directory Preparation
    prepErr      \* whether one of them raised

vars == <<args, fs, fs0, pc, status, exitStatus, stdout, data_reader,
          readerCount, figs, log, raisedAt, prepCount, prepErr>>

-----------------------------------------------------------------------------
(* Names and paths                                                          *)

Filenames == <<"dynamic_txyz.txt", "mxs.npy", "mys.npy", "mzs.npy">>

RequiredNames == {Filenames[i] : i \in 1..Len(Filenames)}

\* Another entry a data directory may hold.
OtherDataNames == {"README.txt"}

DataNames == RequiredNames \cup OtherDataNames

DataContents == {"absent", "valid", "corrupt"}

Figures == {2, 3, 4, 5}

FigureFileSameName(k) == "figure_2.png"

FigureFile(k) ==
    CASE k = 2 -> "figure_2.png"
      [] k = 3 -> "figure_3.png"
      [] k = 4 -> "figure_4.png"
      [] k = 5 -> "figure_5.png"

FigureNames == {"figure_2.png", "figure_3.png", "figure_4.png", "figure_5.png"}

\* An unrelated entry an output directory may hold.
OtherOutNames == {"notes.txt"}

OutNames == FigureNames \cup OtherOutNames

\* What savefig leaves at its target when it returns.
Image(k) ==
    CASE k = 2 -> "image_2"
      [] k = 3 -> "image_3"
      [] k = 4 -> "image_4"
      [] k = 5 -> "image_5"

\* The working directory relative paths are resolved against.
Cwd == <<"/", "cwd">>

\* The values --data-dir and --output-dir take: a relative path, or the
\* default, which is absolute and goes through '..'.
DataDirArgs == {<<"data">>, <<"/", "here", "..", "data", "oommf">>}

OutputDirArgs == {<<"plots">>, <<"/", "here", "..", "figures", "plots">>}

RECURSIVE CollapseFrom(_, _, _)
CollapseFrom(p, i, acc) ==
    IF i > Len(p) THEN acc
    ELSE IF p[i] = ".."
         THEN CollapseFrom(p, i + 1,
                  IF Len(acc) > 1 THEN SubSeq(acc, 1, Len(acc) - 1) ELSE acc)
         ELSE CollapseFrom(p, i + 1, Append(acc, p[i]))

\* Path.resolve(): make the path absolute and collapse '..'.
Resolve(p) ==
    CollapseFrom(IF p[1] = "/" THEN p ELSE Cwd \o p, 1, <<>>)

-----------------------------------------------------------------------------
(* The filesystem                                                           *)

Depth == MaxDepth

\* The chains of the domain: some leading components are directories, the
\* rest are missing, and the last one may also be a regular file.
Chains ==
    {c \in [1..Depth -> {"absent", "dir", "file"}] :
        /\ \A i \in 1..(Depth - 1) : c[i] \in {"absent", "dir"}
        /\ \A i \in 2..Depth : c[i] # "absent" => c[i - 1] = "dir"}

AllDirs == [i \in 1..Depth |-> "dir"]

EmptyOut == [n \in OutNames |-> "absent"]

\* Path.exists() of the output path.
OutputExists(f) == f.chain[Depth] # "absent"

\* Path.exists() of data_dir.joinpath(fname).
EntryExists(data, fname) == data.exists /\ data.entries[fname] # "absent"

AnyInputExists(data) ==
    \E i \in 1..Len(Filenames) : EntryExists(data, Filenames[i])

\* all([data_dir.joinpath(fname).exists() for fname in filenames])
AllInputExists(data) ==
    \A i \in 1..Len(Filenames) : EntryExists(data, Filenames[i])

-----------------------------------------------------------------------------
(* Standard output                                                          *)

NoPath == <<>>

Msg(kind) == [kind |-> kind, path |-> NoPath, files |-> <<>>, hint |-> ""]

PathMsg(kind, p) == [kind |-> kind, path |-> p, files |-> <<>>, hint |-> ""]

MissingMessageNoDir(data_dir) ==
    [kind |-> "missing", path |-> NoPath, files |-> Filenames,
     hint |-> "--data-dir"]

\* The text check_input_data_exists prints: the data directory as it was
\* given, the list `filenames`, and the '--data-dir' hint.
MissingMessage(data_dir) ==
    [kind |-> "missing", path |-> data_dir, files |-> Filenames,
     hint |-> "--data-dir"]

\* The three prints after the output directory is prepared.
DirsMessages(a) ==
    <<Msg("using"),
      PathMsg("input", Resolve(a.data_dir)),
      PathMsg("output", Resolve(a.output_dir))>>

DoneMessages == <<Msg("done"), Msg("success")>>

-----------------------------------------------------------------------------
(* The statements of reproduce_figures, in program order                    *)

St(op) == [op |-> op, fig |-> 0]

Fg(op, k) == [op |-> op, fig |-> k]

ProgramMkdirFirst ==
    <<St("ensure_dir"), St("check"), St("print_dirs"), St("reader"),
      St("print_generating"),
      Fg("build", 2), Fg("build", 3), Fg("build", 4), Fg("build", 5),
      Fg("save", 2), Fg("save", 3), Fg("save", 4), Fg("save", 5),
      St("print_done")>>

ProgramInterleaved ==
    <<St("check"), St("ensure_dir"), St("print_dirs"), St("reader"),
      St("print_generating"),
      Fg("build", 2), Fg("save", 2), Fg("build", 3), Fg("save", 3),
      Fg("build", 4), Fg("save", 4), Fg("build", 5), Fg("save", 5),
      St("print_done")>>

Program ==
    <<St("check"), St("ensure_dir"), St("print_dirs"), St("reader"),
      St("print_generating"),
      Fg("build", 2), Fg("build", 3), Fg("build", 4), Fg("build", 5),
      Fg("save", 2), Fg("save", 3), Fg("save", 4), Fg("save", 5),
      St("print_done")>>

Running == status = "running" /\ pc \in 1..Len(Program)

Cur == Program[pc]

\* sys.exit() with no argument: SystemExit(None), exit status 0.
SysExit == [status |-> "exited", exit |-> 0]

Swallowed(i) ==
    [status |-> IF i + 1 > Len(Program) THEN "done" ELSE "running",
     pc |-> i + 1,
     exit |-> IF i + 1 > Len(Program) THEN 0 ELSE -1,
     raisedAt |-> 0]

\* No try/except anywhere: an exception raised by statement i leaves
\* reproduce_figures and ends the process with a traceback, exit status 1.
Uncaught(i) == [status |-> "error", pc |-> i, exit |-> 1, raisedAt |-> i]

\* Statement i returned: go on with the next one; after the last one the
\* command returns and the process exits with status 0.
Returned(i) ==
    [status |-> IF i + 1 > Len(Program) THEN "done" ELSE "running",
     pc |-> i + 1,
     exit |-> IF i + 1 > Len(Program) THEN 0 ELSE -1,
     raisedAt |-> 0]

Logged(ok) == Append(log, [step |-> Cur, ok |-> ok])

-----------------------------------------------------------------------------
(* Output Directory Preparation                                             *)

\* Path.mkdir(parents): FileExistsError when the path exists,
\* FileNotFoundError when the parent is missing and parents is false;
\* otherwise the directory (and with parents, every missing parent) is made.
Mkdir(f, parents) ==
    IF f.chain[Depth] # "absent"
    THEN [fs |-> f, raised |-> TRUE]
    ELSE IF Depth > 1 /\ f.chain[Depth - 1] # "dir" /\ ~parents
    THEN [fs |-> f, raised |-> TRUE]
    ELSE [fs |-> [f EXCEPT !.chain = AllDirs], raised |-> FALSE]

EnsureOutputDirNoGuard(f) == Mkdir(f, TRUE)

EnsureOutputDirClean(f) ==
    IF ~OutputExists(f)
    THEN Mkdir(f, TRUE)
    ELSE [fs |-> [f EXCEPT !.out = EmptyOut], raised |-> FALSE]

\* if not output_dir.exists(): output_dir.mkdir(parents=True)
EnsureOutputDir(f) ==
    IF ~OutputExists(f) THEN Mkdir(f, TRUE) ELSE [fs |-> f, raised |-> FALSE]

-----------------------------------------------------------------------------
(* Initial states                                                           *)

NoReader == [id |-> 0, dir |-> NoPath, format |-> ""]

NoFig == [fig |-> 0, reader |-> 0]

DataStates ==
    {[exists |-> TRUE, entries |-> e] :
        e \in {d \in [DataNames -> DataContents] :
                 \A n \in OtherDataNames : d[n] # "corrupt"}}
    \cup {[exists |-> FALSE, entries |-> [n \in DataNames |-> "absent"]]}

OutStates(c) ==
    IF c[Depth] = "dir" THEN [OutNames -> {"absent", "old"}] ELSE {EmptyOut}

FsStates ==
    {f \in [data : DataStates, chain : Chains,
            out : [OutNames -> {"absent", "old"}]] :
        f.out \in OutStates(f.chain)}

Init ==
    /\ args \in [data_dir : DataDirArgs, output_dir : OutputDirArgs]
    /\ fs \in FsStates
    /\ fs0 = fs
    /\ pc = 1
    /\ status = "running"
    /\ exitStatus = -1
    /\ stdout = <<>>
    /\ data_reader = NoReader
    /\ readerCount = 0
    /\ figs = [k \in Figures |-> NoFig]
    /\ log = <<>>
    /\ raisedAt = 0
    /\ prepCount = 0
    /\ prepErr = FALSE

-----------------------------------------------------------------------------
(* The statements                                                           *)

Goto(r) ==
    /\ pc' = r.pc
    /\ status' = r.status
    /\ exitStatus' = r.exit
    /\ raisedAt' = r.raisedAt

\* check_input_data_exists(data_dir)
CheckInput ==
    /\ Running
    /\ Cur.op = "check"
    /\ \/ /\ AllInputExists(fs.data)
          /\ Goto(Returned(pc))
          /\ log' = Logged(TRUE)
          /\ UNCHANGED stdout
       \/ /\ ~AllInputExists(fs.data)
          /\ stdout' = Append(stdout, MissingMessage(args.data_dir))
          /\ status' = SysExit.status
          /\ exitStatus' = SysExit.exit
          /\ log' = Logged(FALSE)
          /\ UNCHANGED <<pc, raisedAt>>
    /\ UNCHANGED <<args, fs, fs0, data_reader, readerCount, figs,
                   prepCount, prepErr>>

\* if not output_dir.exists(): output_dir.mkdir(parents=True)
EnsureDir ==
    /\ Running
    /\ Cur.op = "ensure_dir"
    /\ LET r == EnsureOutputDir(fs) IN
         /\ fs' = r.fs
         /\ Goto(IF r.raised THEN Uncaught(pc) ELSE Returned(pc))
         /\ log' = Logged(~r.raised)
    /\ UNCHANGED <<args, fs0, stdout, data_reader, readerCount, figs,
                   prepCount, prepErr>>

\* the prints of the data and output directories
PrintDirs ==
    /\ Running
    /\ Cur.op = "print_dirs"
    /\ stdout' = stdout \o DirsMessages(args)
    /\ Goto(Returned(pc))
    /\ log' = Logged(TRUE)
    /\ UNCHANGED <<args, fs, fs0, data_reader, readerCount, figs,
                   prepCount, prepErr>>

\* data_reader = DataReader(data_dir, data_format='OOMMF')
ConstructReader ==
    /\ Running
    /\ Cur.op = "reader"
    /\ \/ /\ data_reader' = [id |-> readerCount + 1, dir |-> args.data_dir,
                             format |-> "OOMMF"]
          /\ readerCount' = readerCount + 1
          /\ Goto(Returned(pc))
          /\ log' = Logged(TRUE)
       \/ /\ Goto(Uncaught(pc))
          /\ log' = Logged(FALSE)
          /\ UNCHANGED <<data_reader, readerCount>>
    /\ UNCHANGED <<args, fs, fs0, stdout, figs, prepCount, prepErr>>

\* print("Generating plots...")
PrintGenerating ==
    /\ Running
    /\ Cur.op = "print_generating"
    /\ stdout' = Append(stdout, Msg("generating"))
    /\ Goto(Returned(pc))
    /\ log' = Logged(TRUE)
    /\ UNCHANGED <<args, fs, fs0, data_reader, readerCount, figs,
                   prepCount, prepErr>>

\* figN = make_figure_N(data_reader)
Build ==
    /\ Running
    /\ Cur.op = "build"
    /\ \/ /\ data_reader # NoReader
          /\ figs' = [figs EXCEPT ![Cur.fig] =
                         [fig |-> Cur.fig, reader |-> data_reader.id]]
          /\ Goto(Returned(pc))
          /\ log' = Logged(TRUE)
       \/ /\ Goto(Uncaught(pc))
          /\ log' = Logged(FALSE)
          /\ UNCHANGED figs
    /\ UNCHANGED <<args, fs, fs0, stdout, data_reader, readerCount,
                   prepCount, prepErr>>

\* What a savefig that raises may leave at its target: nothing when the
\* target cannot be opened, else the old entry or a truncated file.
LeftByFailedSave(f, name) ==
    IF f.chain[Depth] = "dir" THEN {f.out[name], "partial"} ELSE {f.out[name]}

\* figN.savefig(str(output_dir.joinpath('figure_N.png')))
Save ==
    /\ Running
    /\ Cur.op = "save"
    /\ \/ /\ figs[Cur.fig] # NoFig
          /\ fs.chain[Depth] = "dir"
          /\ fs' = [fs EXCEPT !.out[FigureFile(Cur.fig)] = Image(figs[Cur.fig].fig)]
          /\ Goto(Returned(pc))
          /\ log' = Logged(TRUE)
       \/ /\ \E left \in LeftByFailedSave(fs, FigureFile(Cur.fig)) :
                fs' = [fs EXCEPT !.out[FigureFile(Cur.fig)] = left]
          /\ Goto(Uncaught(pc))
          /\ log' = Logged(FALSE)
    /\ UNCHANGED <<args, fs0, stdout, data_reader, readerCount, figs,
                   prepCount, prepErr>>

\* print("Done."); print("Plots have been successfully generated ...")
PrintDone ==
    /\ Running
    /\ Cur.op = "print_done"
    /\ stdout' = stdout \o DoneMessages
    /\ Goto(Returned(pc))
    /\ log' = Logged(TRUE)
    /\ UNCHANGED <<args, fs, fs0, data_reader, readerCount, figs,
                   prepCount, prepErr>>

Next ==
    \/ CheckInput
    \/ EnsureDir
    \/ PrintDirs
    \/ ConstructReader
    \/ PrintGenerating
    \/ Build
    \/ Save
    \/ PrintDone

Spec == Init /\ [][Next]_vars

-----------------------------------------------------------------------------
(* Output Directory Preparation on its own, applied repeatedly             *)

PrepStep ==
    /\ prepCount < MaxPrep
    /\ LET r == EnsureOutputDir(fs) IN
         /\ fs' = r.fs
         /\ prepErr' = (prepErr \/ r.raised)
    /\ prepCount' = prepCount + 1
    /\ UNCHANGED <<args, fs0, pc, status, exitStatus, stdout, data_reader,
                   readerCount, figs, log, raisedAt>>

NextPrep == PrepStep

SpecPrep == Init /\ [][NextPrep]_vars

-----------------------------------------------------------------------------
(* Vocabulary of the properties                                             *)

Range(q) == {q[i] : i \in 1..Len(q)}

Ended == status # "running"

Printed(m) == m \in Range(stdout)

\* The file each figure is expected under.
ExpectedFile(k) ==
    CASE k = 2 -> "figure_2.png"
      [] k = 3 -> "figure_3.png"
      [] k = 4 -> "figure_4.png"
      [] k = 5 -> "figure_5.png"

ExpectedImage(k) ==
    CASE k = 2 -> "image_2"
      [] k = 3 -> "image_3"
      [] k = 4 -> "image_4"
      [] k = 5 -> "image_5"

\* The order of steps the specification lists.
ExpectedOrder ==
    <<St("check"), St("ensure_dir"), St("print_dirs"), St("reader"),
      Fg("build", 2), Fg("build", 3), Fg("build", 4), Fg("build", 5),
      Fg("save", 2), Fg("save", 3), Fg("save", 4), Fg("save", 5),
      St("print_done")>>

IsListedStep(e) == e.step.op # "print_generating"

ListedLog == SelectSeq(log, IsListedStep)

Executed(step) == \E i \in 1..Len(log) : log[i].step = step

Succeeded(step) == \E i \in 1..Len(log) : log[i].step = step /\ log[i].ok

\* The required names that are absent from a data directory.
MissingFiles(data) ==
    {n \in RequiredNames : ~(data.exists /\ data.entries[n] # "absent")}

AllRequiredPresent(data) ==
    data.exists /\ \A n \in RequiredNames : data.entries[n] # "absent"

-----------------------------------------------------------------------------
(* C1: when at least one of the four required files is absent (the data     *)
(* directory itself may be absent), the run rejects the directory: it       *)
(* executes no statement other than the check, constructs no reader, builds *)
(* no figure, and the filesystem stays equal to what it was at the start.   *)
C1_RejectedRunChangesNothing ==
    ~AllRequiredPresent(fs0.data) =>
        /\ fs = fs0
        /\ data_reader = NoReader
        /\ readerCount = 0
        /\ \A k \in Figures : figs[k] = NoFig
        /\ \A i \in 1..Len(log) : log[i].step.op = "check" /\ ~log[i].ok
        /\ Ended => status = "exited"

C1_Witness ==
    /\ status = "exited"
    /\ MissingFiles(fs0.data) = {"mzs.npy"}
    /\ fs0.data.exists
    /\ fs0.chain[1] = "absent"

(* C2: check_input_data_exists accepts exactly the data directories that    *)
(* hold all four required names, whatever their content and whatever else   *)
(* the directory holds; on acceptance it prints nothing and does not exit.  *)
C2_AcceptsIffAllFourExist ==
    Executed(St("check")) =>
        /\ Succeeded(St("check")) <=> AllRequiredPresent(fs0.data)
        /\ Succeeded(St("check")) =>
              /\ status # "exited"
              /\ \A i \in 1..Len(stdout) : stdout[i].kind # "missing"
              /\ Len(log) = 1 => stdout = <<>> /\ status = "running"

C2_Witness ==
    /\ Succeeded(St("check"))
    /\ fs0.data.entries["mxs.npy"] = "corrupt"
    /\ fs0.data.entries["dynamic_txyz.txt"] = "corrupt"
    /\ fs0.data.entries["README.txt"] = "valid"

(* C3 as stated: on missing input the one diagnostic names the data         *)
(* directory, the list of the files that are missing and the hint, and the  *)
(* process exits with status 0.                                             *)
C3_PrintsMissingFileList ==
    status = "exited" =>
        /\ Len(stdout) = 1
        /\ stdout[1].kind = "missing"
        /\ stdout[1].path = args.data_dir
        /\ Range(stdout[1].files) = MissingFiles(fs0.data)
        /\ stdout[1].hint = "--data-dir"
        /\ exitStatus = 0
        /\ raisedAt = 0

(* C3 amended: on missing input (any non-empty subset of the four) the run  *)
(* ends in the graceful-exit state with status 0 and no exception, having   *)
(* printed exactly one diagnostic that names the data directory as given,   *)
(* the full list of the four required files and the '--data-dir' hint.      *)
C3_GracefulExit ==
    (~AllRequiredPresent(fs0.data) /\ Ended) =>
        /\ status = "exited"
        /\ exitStatus = 0
        /\ raisedAt = 0
        /\ Len(stdout) = 1
        /\ stdout[1].kind = "missing"
        /\ stdout[1].path = args.data_dir
        /\ stdout[1].files =
              <<"dynamic_txyz.txt", "mxs.npy", "mys.npy", "mzs.npy">>
        /\ stdout[1].hint = "--data-dir"

C3_Witness ==
    /\ status = "exited"
    /\ MissingFiles(fs0.data) = {"mxs.npy", "mzs.npy"}

(* C4: applied repeatedly to an output path that did not exist at first,    *)
(* with any number of missing parents, the first application of Output      *)
(* Directory Preparation creates the directory and every missing parent,    *)
(* every later application changes nothing, none raises, and the directory  *)
(* exists after each.                                                       *)
C4_PreparationIdempotent ==
    [][fs0.chain[Depth] = "absent" =>
          /\ ~prepErr'
          /\ fs'.chain = [i \in 1..Depth |-> "dir"]
          /\ fs'.data = fs.data
          /\ fs'.out = fs.out
          /\ prepCount >= 1 => fs' = fs]_vars

C4_Witness ==
    /\ prepCount = 2
    /\ fs0.chain[Depth] = "absent"
    /\ fs0.chain[1] = "absent"
    /\ fs.chain[Depth] = "dir"
    /\ ~prepErr

ValidStart ==
    /\ fs0.data.exists
    /\ \A n \in RequiredNames : fs0.data.entries[n] = "valid"
    /\ fs0.chain[Depth] = "absent"

NoCallFailed ==
    \A i \in 1..Len(log) :
        log[i].step.op \in {"reader", "build", "save"} => log[i].ok

AllFiguresSaved ==
    /\ fs.chain[Depth] = "dir"
    /\ \A k \in Figures : fs.out[ExpectedFile(k)] = ExpectedImage(k)

(* C5: from a data directory holding the four files with valid content and  *)
(* an output directory that does not exist yet, a run in which no reader,   *)
(* builder or save call fails keeps running until it ends normally, with    *)
(* the output directory created, figure_2.png .. figure_5.png present in    *)
(* it, both resolved directory paths printed and the success message        *)
(* printed; the success message is printed only after all four saves.       *)
C5_HappyPath ==
    /\ (ValidStart /\ NoCallFailed) =>
          /\ ~Ended => ENABLED Next
          /\ Ended =>
                /\ status = "done"
                /\ exitStatus = 0
                /\ AllFiguresSaved
                /\ Printed(PathMsg("input", Resolve(args.data_dir)))
                /\ Printed(PathMsg("output", Resolve(args.output_dir)))
                /\ Printed(Msg("success"))
    /\ Printed(Msg("success")) =>
          \A k \in Figures : Succeeded(Fg("save", k)) /\ AllFiguresSaved

C5_Witness ==
    /\ ValidStart
    /\ status = "done"
    /\ fs0.chain[1] = "absent"
    /\ Printed(Msg("success"))
    /\ Printed(PathMsg("output", <<"/", "cwd", "plots">>))
    /\ Printed(PathMsg("input", <<"/", "data", "oommf">>))

(* C6: when the output directory already exists, a run leaves every entry   *)
(* of it other than the four figure files as it was, leaves the data        *)
(* directory and the parents of the output directory as they were, and a    *)
(* full run replaces each of the four figure files, pre-existing or not.    *)
C6_OnlyFigureFilesChange ==
    fs0.chain[Depth] = "dir" =>
        /\ \A n \in OutNames \ {ExpectedFile(k) : k \in Figures} :
              fs.out[n] = fs0.out[n]
        /\ fs.data = fs0.data
        /\ fs.chain = fs0.chain
        /\ status = "done" =>
              \A k \in Figures : fs.out[ExpectedFile(k)] = ExpectedImage(k)

C6_Witness ==
    /\ status = "done"
    /\ fs0.chain[Depth] = "dir"
    /\ fs0.out["notes.txt"] = "old"
    /\ fs0.out["figure_3.png"] = "old"
    /\ fs0.out["figure_4.png"] = "absent"
    /\ fs.out["notes.txt"] = "old"

(* C7: the statements run in the fixed order check, ensure output           *)
(* directory, print directories, construct reader, build 2, 3, 4, 5, save   *)
(* 2, 3, 4, 5, print completion; a statement runs only after every earlier  *)
(* one succeeded; the reader is constructed at most once, only after the    *)
(* check passed, and exactly once in a completed run; every figure was      *)
(* built from that reader; no save runs before all four figures are built.  *)
C7_FixedOrder ==
    /\ Len(ListedLog) <= Len(ExpectedOrder)
    /\ \A i \in 1..Len(ListedLog) : ListedLog[i].step = ExpectedOrder[i]
    /\ \A i \in 1..(Len(log) - 1) : log[i].ok
    /\ readerCount <= 1
    /\ readerCount = 1 => Succeeded(St("check"))
    /\ Executed(St("reader")) => Succeeded(St("check"))
    /\ status = "done" => readerCount = 1
    /\ \A k \in Figures :
          figs[k] # NoFig =>
              /\ data_reader # NoReader
              /\ figs[k].reader = data_reader.id
              /\ figs[k].fig = k
    /\ \A k \in Figures :
          Executed(Fg("save", k)) => \A j \in Figures : figs[j] # NoFig

C7_Witness ==
    /\ status = "done"
    /\ Len(log) = 14
    /\ readerCount = 1

(* C8: when the DataReader constructor or a figure builder raises, nothing  *)
(* catches or retries it: it is the last statement of the run, the run      *)
(* ends in the error state with a failure exit status, no entry of the      *)
(* output directory has been written or overwritten, and the success        *)
(* message is not printed.                                                  *)
C8_NoPartialSuccessBeforeSaving ==
    \A i \in 1..Len(log) :
        (log[i].step.op \in {"reader", "build"} /\ ~log[i].ok) =>
            /\ i = Len(log)
            /\ status = "error"
            /\ exitStatus = 1
            /\ raisedAt = pc
            /\ Program[pc] = log[i].step
            /\ fs.out = fs0.out
            /\ ~Printed(Msg("success"))
            /\ \A j \in 1..(i - 1) : log[j].step # log[i].step

C8_Witness ==
    /\ status = "error"
    /\ log[Len(log)] = [step |-> Fg("build", 4), ok |-> FALSE]
    /\ fs0.chain[Depth] = "dir"
    /\ fs0.out["figure_2.png"] = "old"

(* C9: whenever a figure save is about to run, the output directory exists  *)
(* as a directory.                                                          *)
C9_SaveOnlyIntoDirectory ==
    (Running /\ Cur.op = "save") => fs.chain[Depth] = "dir"

(* C10: the figures saved by a run are a prefix of 2, 3, 4, 5; when a save  *)
(* raises, exactly the figures before it have been saved and their files    *)
(* stay in place, no later save or statement runs, the files of the later   *)
(* figures are untouched, an output directory created by the run remains,   *)
(* the success message is not printed and the run ends in the error state.  *)
C10_SavedFiguresArePrefix ==
    /\ \A k \in Figures :
          Succeeded(Fg("save", k)) =>
              /\ \A j \in Figures : j < k => Succeeded(Fg("save", j))
              /\ fs.out[ExpectedFile(k)] = ExpectedImage(k)
    /\ \A i \in 1..Len(log) :
          (log[i].step.op = "save" /\ ~log[i].ok) =>
              /\ i = Len(log)
              /\ status = "error"
              /\ exitStatus = 1
              /\ ~Printed(Msg("success"))
              /\ \A j \in Figures :
                    /\ Succeeded(Fg("save", j)) <=> j < log[i].step.fig
                    /\ j > log[i].step.fig =>
                          /\ ~Executed(Fg("save", j))
                          /\ fs.out[ExpectedFile(j)] = fs0.out[ExpectedFile(j)]
              /\ fs0.chain[Depth] = "absent" => fs.chain = [d \in 1..Depth |-> "dir"]

C10_Witness ==
    /\ status = "error"
    /\ log[Len(log)] = [step |-> Fg("save", 4), ok |-> FALSE]
    /\ fs0.chain[1] = "absent"
    /\ fs.out["figure_2.png"] = "image_2"
    /\ fs.out["figure_3.png"] = "image_3"
    /\ fs.out["figure_4.png"] = "partial"
    /\ fs.out["figure_5.png"] = "absent"

====
